---- MODULE Spec2Model ----
(***************************************************************************)
(* Model of useSyncDseBrokerData                                           *)
(* (apps/frontend/src/features/wealthfolio-connect/hooks/                  *)
(*  use-sync-dse-broker-data.ts).                                          *)
(*                                                                         *)
(* The hook wraps syncDseBrokerData in a mutation.  Every invocation of    *)
(* the trigger creates its own mutation, which issues one call of the      *)
(* mutation function, stays "pending" until the call has settled and the   *)
(* matching callback (onSuccess / onError) has run, and ends in "success"  *)
(* or "error".  The callbacks talk to the toast registry.                  *)
(***************************************************************************)
EXTENDS Naturals, Sequences, FiniteSets

VARIABLES
    invoked,       \* number of trigger invocations made so far (ids 1..invoked)
    status,        \* status[i]: mutation status of invocation i
    calls,         \* calls[i]: syncDseBrokerData calls issued for invocation i
    failureCount,  \* failureCount[i]: failed calls of invocation i
    outcome,       \* outcome[i]: settled result of the in-flight call, if any
    emitted,       \* toast calls made by the hook, in order of emission
    registry,      \* the keyed entries of the toast registry
    thrown         \* TRUE once an error has propagated to a caller of the trigger

vars == <<invoked, status, calls, failureCount, outcome, emitted, registry,
          thrown>>

-----------------------------------------------------------------------------
(* Bounds of the model. *)
MaxInvocations == 3

Invocations == 1..MaxInvocations

-----------------------------------------------------------------------------
(* Literals of the hook. *)
LoadingText == "Syncing DSE broker data..."
LoadingId == "dse-broker-sync-start"
ErrorPrefix == "Failed to start DSE sync: "
UnknownError == "Unknown error"

(* An unkeyed toast call gets a fresh id from the registry; it never equals  *)
(* a caller-supplied key.                                                    *)
AutoId == ""

(* Variant: the mutation is configured to repeat a failed call once. *)
RetryOnce == 0 + 1

(* useMutation is given no retry option: a failed call is not repeated. *)
Retry == 0

-----------------------------------------------------------------------------
(* Failure values the mutation function can reject with.  type is the     *)
(* kind of JavaScript value, message what reading its message field and    *)
(* printing it in a template gives: the field where there is one,          *)
(* "undefined" where there is none.                                        *)
ErrorValue(m) == [type |-> "Error", hasMessage |-> TRUE, message |-> m]
ObjectWithMessage(m) == [type |-> "object", hasMessage |-> TRUE, message |-> m]
StringValue == [type |-> "string", hasMessage |-> FALSE, message |-> "undefined"]
UndefinedValue == [type |-> "undefined", hasMessage |-> FALSE, message |-> "undefined"]

FailureValues ==
    { ErrorValue("network down"),        \* new Error("network down")
      ErrorValue(""),                    \* new Error()
      ObjectWithMessage("denied"),       \* { message: "denied" }
      StringValue,                       \* "boom"
      UndefinedValue }                   \* undefined

NoError == [type |-> "none", hasMessage |-> FALSE, message |-> "undefined"]

Unsettled == [state |-> "none", error |-> NoError]
Fulfilled == [state |-> "fulfilled", error |-> NoError]
Rejected(e) == [state |-> "rejected", error |-> e]

NoToast == [kind |-> "none", text |-> "", id |-> ""]

-----------------------------------------------------------------------------
(* error instanceof Error *)
instanceofError(error) == error.type = "Error"

(* Variant: the message field is read without the instanceof test. *)
ErrorMessageUnchecked(error) == error.message

(* error instanceof Error ? error.message : "Unknown error" *)
ErrorMessage(error) ==
    IF instanceofError(error) THEN error.message ELSE UnknownError

(* Variant: the message is shown without the prefix. *)
ErrorTextNoPrefix(error) == ErrorMessage(error)

(* `Failed to start DSE sync: ${...}` *)
ErrorText(error) == ErrorPrefix \o ErrorMessage(error)

(* Variant: toast.loading(text) without the id option. *)
toastLoadingUnkeyed(i, text, id) ==
    /\ emitted' = Append(emitted, [inv |-> i, kind |-> "loading",
                                   text |-> text, id |-> AutoId])
    /\ registry' = registry

(* toast.loading(text, { id }): upsert of the entry under id. *)
toastLoading(i, text, id) ==
    /\ emitted' = Append(emitted, [inv |-> i, kind |-> "loading",
                                   text |-> text, id |-> id])
    /\ registry' = [k \in DOMAIN registry |->
                      IF k = id THEN [kind |-> "loading", text |-> text, id |-> id]
                      ELSE registry[k]]

(* Variant: toast.error(text, { id: "dse-broker-sync-start" }), which       *)
(* replaces the entry under the loading key.                               *)
toastErrorKeyed(i, text) ==
    /\ emitted' = Append(emitted, [inv |-> i, kind |-> "error",
                                   text |-> text, id |-> LoadingId])
    /\ registry' = [registry EXCEPT ![LoadingId] =
                      [kind |-> "error", text |-> text, id |-> LoadingId]]

(* toast.error(text): a new entry under a fresh id; keyed entries untouched. *)
toastError(i, text) ==
    /\ emitted' = Append(emitted, [inv |-> i, kind |-> "error",
                                   text |-> text, id |-> AutoId])
    /\ registry' = registry

-----------------------------------------------------------------------------
Init ==
    /\ invoked = 0
    /\ status = [i \in Invocations |-> "idle"]
    /\ calls = [i \in Invocations |-> 0]
    /\ failureCount = [i \in Invocations |-> 0]
    /\ outcome = [i \in Invocations |-> Unsettled]
    /\ emitted = <<>>
    /\ registry = [k \in {LoadingId} |-> NoToast]
    /\ thrown = FALSE

(* Variant: the loading toast is shown optimistically when the trigger is  *)
(* invoked, before the call has settled.                                   *)
MutateEager ==
    /\ invoked < MaxInvocations
    /\ invoked' = invoked + 1
    /\ status' = [status EXCEPT ![invoked + 1] = "pending"]
    /\ calls' = [calls EXCEPT ![invoked + 1] = 1]
    /\ toastLoading(invoked + 1, LoadingText, LoadingId)
    /\ UNCHANGED <<failureCount, outcome, thrown>>

(* Variant: an invocation made while another one is in flight is dropped. *)
MutateDeduplicated ==
    /\ invoked < MaxInvocations
    /\ invoked' = invoked + 1
    /\ IF \E j \in 1..invoked : status[j] = "pending"
       THEN UNCHANGED <<status, calls>>
       ELSE /\ status' = [status EXCEPT ![invoked + 1] = "pending"]
            /\ calls' = [calls EXCEPT ![invoked + 1] = 1]
    /\ UNCHANGED <<failureCount, outcome, emitted, registry, thrown>>

(* The caller invokes the trigger: a new mutation is created, goes to      *)
(* pending and issues its call of the mutation function.  Nothing is       *)
(* raised to the caller and no callback has run yet.                       *)
Mutate ==
    /\ invoked < MaxInvocations
    /\ invoked' = invoked + 1
    /\ status' = [status EXCEPT ![invoked + 1] = "pending"]
    /\ calls' = [calls EXCEPT ![invoked + 1] = 1]
    /\ UNCHANGED <<failureCount, outcome, emitted, registry, thrown>>

(* syncDseBrokerData resolves: the start request was accepted. *)
Resolve(i) ==
    /\ status[i] = "pending"
    /\ outcome[i].state = "none"
    /\ outcome' = [outcome EXCEPT ![i] = Fulfilled]
    /\ UNCHANGED <<invoked, status, calls, failureCount, emitted, registry,
                   thrown>>

(* syncDseBrokerData rejects with e.  The call is repeated while the       *)
(* failure count is below the retry option, otherwise the rejection        *)
(* stands.                                                                 *)
Reject(i, e) ==
    /\ status[i] = "pending"
    /\ outcome[i].state = "none"
    /\ failureCount' = [failureCount EXCEPT ![i] = @ + 1]
    /\ IF failureCount[i] < Retry
       THEN /\ calls' = [calls EXCEPT ![i] = @ + 1]
            /\ UNCHANGED outcome
       ELSE /\ outcome' = [outcome EXCEPT ![i] = Rejected(e)]
            /\ UNCHANGED calls
    /\ UNCHANGED <<invoked, status, emitted, registry, thrown>>

(* onSuccess: () => { toast.loading(...) }, then the mutation is a success. *)
onSuccess(i) ==
    /\ status[i] = "pending"
    /\ outcome[i].state = "fulfilled"
    /\ toastLoading(i, LoadingText, LoadingId)
    /\ status' = [status EXCEPT ![i] = "success"]
    /\ UNCHANGED <<invoked, calls, failureCount, outcome, thrown>>

(* Variant: the toast is shown only for instances of Error. *)
onErrorSilent(i) ==
    /\ status[i] = "pending"
    /\ outcome[i].state = "rejected"
    /\ IF instanceofError(outcome[i].error)
       THEN toastError(i, ErrorText(outcome[i].error))
       ELSE UNCHANGED <<emitted, registry>>
    /\ status' = [status EXCEPT ![i] = "error"]
    /\ UNCHANGED <<invoked, calls, failureCount, outcome, thrown>>

(* Variant: the callback shows the toast and rethrows the error. *)
onErrorRethrow(i) ==
    /\ status[i] = "pending"
    /\ outcome[i].state = "rejected"
    /\ toastError(i, ErrorText(outcome[i].error))
    /\ status' = [status EXCEPT ![i] = "error"]
    /\ thrown' = TRUE
    /\ UNCHANGED <<invoked, calls, failureCount, outcome>>

(* onError: (error) => { toast.error(...) }, then the mutation is an error. *)
(* The error is kept in the mutation state and not rethrown.                *)
onError(i) ==
    /\ status[i] = "pending"
    /\ outcome[i].state = "rejected"
    /\ toastError(i, ErrorText(outcome[i].error))
    /\ status' = [status EXCEPT ![i] = "error"]
    /\ UNCHANGED <<invoked, calls, failureCount, outcome, thrown>>

(* The global event listener reacts to a server-sent completion event by   *)
(* replacing or dismissing the entry under the loading key.                *)
ListenerUpdate ==
    /\ registry' = [registry EXCEPT ![LoadingId] =
                      [kind |-> "success", text |-> "DSE broker sync completed",
                       id |-> LoadingId]]
    /\ UNCHANGED <<invoked, status, calls, failureCount, outcome, emitted, thrown>>

ListenerDismiss ==
    /\ registry' = [registry EXCEPT ![LoadingId] = NoToast]
    /\ UNCHANGED <<invoked, status, calls, failureCount, outcome, emitted, thrown>>

Next ==
    \/ Mutate
    \/ \E i \in Invocations : Resolve(i)
    \/ \E i \in Invocations : \E e \in FailureValues : Reject(i, e)
    \/ \E i \in Invocations : onSuccess(i)
    \/ \E i \in Invocations : onError(i)
    \/ ListenerUpdate
    \/ ListenerDismiss

Spec == Init /\ [][Next]_vars

(* The event loop runs the callback of every settled call. *)
FairSpec == Spec /\ \A i \in Invocations : WF_vars(onSuccess(i) \/ onError(i))

-----------------------------------------------------------------------------
(* Vocabulary of the properties. *)

(* The invocations made so far. *)
Made == 1..invoked

(* The call of invocation i has settled (resolved or rejected). *)
Settled(i) == outcome[i].state # "none"

(* Invocation i is complete: its call has settled and its callback has run. *)
Completed(i) == status[i] \in {"success", "error"}

(* The positions in the emission order of the toasts of invocation i. *)
NotificationsOf(i) == {k \in DOMAIN emitted : emitted[k].inv = i}

-----------------------------------------------------------------------------
(* C1: every completed invocation (its startSync call has settled and the  *)
(* mutation has delivered the outcome) has emitted exactly one             *)
(* notification: the loading one if the call was accepted, the error one   *)
(* if it failed; never both, never none.                                   *)
C1_ExactlyOneNotification ==
    \A i \in Made :
        Completed(i) =>
            /\ Cardinality(NotificationsOf(i)) = 1
            /\ \A k \in NotificationsOf(i) :
                   emitted[k].kind =
                       IF outcome[i].state = "fulfilled" THEN "loading" ELSE "error"

C1_Witness ==
    \E i, j \in Made :
        /\ status[i] = "success"
        /\ status[j] = "error"
        /\ ~instanceofError(outcome[j].error)

(* C2: every accepted invocation emits exactly one loading notification,   *)
(* with key "dse-broker-sync-start" and text "Syncing DSE broker data...", *)
(* and no notification of that invocation precedes it.                     *)
C2_LoadingFirst ==
    \A i \in Made :
        outcome[i].state = "fulfilled" =>
            LET loading == {k \in NotificationsOf(i) : emitted[k].kind = "loading"}
            IN  IF Completed(i)
                THEN /\ Cardinality(loading) = 1
                     /\ \A k \in loading :
                            /\ emitted[k].id = "dse-broker-sync-start"
                            /\ emitted[k].text = "Syncing DSE broker data..."
                            /\ \A m \in NotificationsOf(i) : k <= m
                ELSE NotificationsOf(i) = {}

C2_Witness ==
    \E i \in Made :
        /\ status[i] = "success"
        /\ \E k \in DOMAIN emitted :
               /\ emitted[k].kind = "error"
               /\ \E m \in NotificationsOf(i) : k < m

(* C3, as stated: the error text is the prefix followed by the failure     *)
(* value's message field whenever the value has one, and by "Unknown       *)
(* error" otherwise.                                                       *)
C3_MessageFieldUsed ==
    \A i \in Made :
        status[i] = "error" =>
            /\ NotificationsOf(i) # {}
            /\ \A k \in NotificationsOf(i) :
                   emitted[k].text =
                       "Failed to start DSE sync: " \o
                           (IF outcome[i].error.hasMessage
                            THEN outcome[i].error.message
                            ELSE "Unknown error")

(* C3, amended: the error text is the prefix followed by the message of    *)
(* the failure value whenever the value is an instance of Error, and by    *)
(* "Unknown error" for every other value, a message field or not.          *)
C3_ErrorInstanceMessageUsed ==
    \A i \in Made :
        status[i] = "error" =>
            /\ NotificationsOf(i) # {}
            /\ \A k \in NotificationsOf(i) :
                   /\ emitted[k].text =
                          "Failed to start DSE sync: " \o
                              (IF outcome[i].error.type = "Error"
                               THEN outcome[i].error.message
                               ELSE "Unknown error")
                   /\ outcome[i].error = ErrorValue("network down") =>
                          emitted[k].text = "Failed to start DSE sync: network down"
                   /\ outcome[i].error \in {StringValue, UndefinedValue} =>
                          emitted[k].text = "Failed to start DSE sync: Unknown error"

C3_Witness ==
    \E i, j \in Made :
        /\ status[i] = "error"
        /\ outcome[i].error = ObjectWithMessage("denied")
        /\ status[j] = "error"
        /\ outcome[j].error = ErrorValue("network down")

(* C4: every failed invocation, whatever the failure value, emits exactly  *)
(* one error notification whose text starts with                           *)
(* "Failed to start DSE sync: ", and no loading notification.              *)
C4_ErrorPrefix ==
    \A i \in Made :
        status[i] = "error" =>
            /\ Cardinality(NotificationsOf(i)) = 1
            /\ \A k \in NotificationsOf(i) :
                   /\ emitted[k].kind = "error"
                   /\ Len(emitted[k].text) >= Len("Failed to start DSE sync: ")
                   /\ SubSeq(emitted[k].text, 1, Len("Failed to start DSE sync: "))
                          = "Failed to start DSE sync: "

C4_Witness ==
    \E i, j \in Made :
        /\ status[i] = "error"
        /\ outcome[i].error = UndefinedValue
        /\ status[j] = "error"
        /\ outcome[j].error = ErrorValue("")

(* C5: for every failure value the part of the error text after the prefix *)
(* "Failed to start DSE sync: " is non-empty.                              *)
C5_NonEmptyDiagnostic ==
    \A k \in DOMAIN emitted :
        emitted[k].kind = "error" =>
            Len(emitted[k].text) > Len("Failed to start DSE sync: ")

(* C6: the number of notifications emitted is at most the number of        *)
(* invocations whose call has settled, which is at most the number of      *)
(* invocations made; an invocation not made yet or still waiting for its   *)
(* call has no notification.                                               *)
C6_NoEarlyNotification ==
    /\ Len(emitted) <= Cardinality({i \in Invocations : Settled(i)})
    /\ Cardinality({i \in Invocations : Settled(i)}) <= invoked
    /\ invoked = 0 => emitted = <<>>
    /\ \A i \in Invocations : ~Settled(i) => NotificationsOf(i) = {}

C6_Witness ==
    \E i, j \in Made :
        /\ status[i] = "pending"
        /\ ~Settled(i)
        /\ Completed(j)
        /\ Len(emitted) = 1

(* C7: every invocation issues exactly one startSync call; once an         *)
(* invocation has failed it stays failed, issues no further call and       *)
(* emits nothing more; its failure is reported by the one error            *)
(* notification and is not raised to the caller.                           *)
C7_FailureTerminal ==
    /\ [](\A i \in Invocations : calls[i] = IF i <= invoked THEN 1 ELSE 0)
    /\ [](\A i \in Made :
              status[i] = "error" =>
                  /\ ~thrown
                  /\ Cardinality(NotificationsOf(i)) = 1
                  /\ \A k \in NotificationsOf(i) : emitted[k].kind = "error")
    /\ [][\A i \in Invocations :
              status[i] = "error" =>
                  /\ status'[i] = "error"
                  /\ calls'[i] = calls[i]
                  /\ outcome'[i] = outcome[i]
                  /\ {k \in DOMAIN emitted' : emitted'[k].inv = i} = NotificationsOf(i)
         ]_vars

C7_Witness ==
    \E i, j \in Made :
        /\ i < j
        /\ status[i] = "error"
        /\ Completed(j)
        /\ \E k \in NotificationsOf(i) : \E m \in NotificationsOf(j) : k < m

(* The startSync calls issued by invocations 1..n. *)
RECURSIVE CallsUpTo(_)
CallsUpTo(n) == IF n = 0 THEN 0 ELSE calls[n] + CallsUpTo(n - 1)

(* C8: N invocations issue N startSync calls, one each, whatever is in     *)
(* flight; once all have completed there are N notifications, and the      *)
(* notification of each invocation is the one its own outcome determines.  *)
C8_IndependentInvocations ==
    /\ CallsUpTo(MaxInvocations) = invoked
    /\ \A i \in Made : status[i] # "idle" /\ calls[i] = 1
    /\ (\A i \in Made : Completed(i)) => Len(emitted) = invoked
    /\ \A i \in Made :
           Completed(i) =>
               \E k \in DOMAIN emitted :
                   /\ emitted[k].inv = i
                   /\ outcome[i].state = "fulfilled" => emitted[k].kind = "loading"
                   /\ outcome[i].state = "rejected" =>
                          /\ emitted[k].kind = "error"
                          /\ emitted[k].text = ErrorText(outcome[i].error)

C8_Witness ==
    /\ invoked >= 2
    /\ \A i \in Made : Completed(i)
    /\ emitted[1].inv = invoked
    /\ \E i, j \in Made : status[i] = "success" /\ status[j] = "error"

(* C9: invoking the trigger raises nothing, emits nothing and leaves the   *)
(* new invocation pending; the status of an invocation only moves          *)
(* idle -> pending, pending -> success (after the call was accepted, with  *)
(* the loading notification) or pending -> error (after the call failed,   *)
(* with the error notification); and an invocation whose call has settled  *)
(* eventually is complete with its notification emitted.                   *)
C9_Lifecycle ==
    /\ []~thrown
    /\ [][invoked' # invoked =>
              /\ invoked' = invoked + 1
              /\ status[invoked'] = "idle"
              /\ status'[invoked'] = "pending"
              /\ outcome'[invoked'].state = "none"
              /\ emitted' = emitted
         ]_vars
    /\ [][\A i \in Invocations :
              status'[i] # status[i] =>
                  \/ status[i] = "idle" /\ status'[i] = "pending"
                  \/ /\ status[i] = "pending"
                     /\ status'[i] = "success"
                     /\ outcome[i].state = "fulfilled"
                     /\ Len(emitted') = Len(emitted) + 1
                     /\ emitted'[Len(emitted')].inv = i
                     /\ emitted'[Len(emitted')].kind = "loading"
                  \/ /\ status[i] = "pending"
                     /\ status'[i] = "error"
                     /\ outcome[i].state = "rejected"
                     /\ Len(emitted') = Len(emitted) + 1
                     /\ emitted'[Len(emitted')].inv = i
                     /\ emitted'[Len(emitted')].kind = "error"
         ]_vars
    /\ \A i \in Invocations :
           Settled(i) ~> (Completed(i) /\ NotificationsOf(i) # {})

C9_Witness ==
    \E i, j, l \in Made :
        /\ status[i] = "success" /\ NotificationsOf(i) # {}
        /\ status[j] = "error" /\ NotificationsOf(j) # {}
        /\ status[l] = "pending" /\ Settled(l)

(* C10: the hook only appends to what it has emitted, each emission being  *)
(* the loading notification under key "dse-broker-sync-start" or an        *)
(* unkeyed error notification; the registry entry under that key changes   *)
(* only when an invocation succeeds or the external listener writes it,    *)
(* and a failing invocation leaves it as it is.                            *)
C10_NoRewrite ==
    [][/\ Len(emitted') >= Len(emitted)
       /\ SubSeq(emitted', 1, Len(emitted)) = emitted
       /\ \A k \in DOMAIN emitted' \ DOMAIN emitted :
              \/ emitted'[k].kind = "loading" /\ emitted'[k].id = "dse-broker-sync-start"
              \/ emitted'[k].kind = "error" /\ emitted'[k].id = AutoId
       /\ registry'["dse-broker-sync-start"] # registry["dse-broker-sync-start"] =>
              \/ \E i \in Invocations : status[i] = "pending" /\ status'[i] = "success"
              \/ /\ registry'["dse-broker-sync-start"].kind \in {"success", "none"}
                 /\ UNCHANGED <<invoked, status, calls, outcome, emitted>>
       /\ (\E i \in Invocations : status[i] # "error" /\ status'[i] = "error") =>
              registry' = registry
      ]_vars

C10_Witness ==
    /\ registry["dse-broker-sync-start"].kind = "loading"
    /\ \E k, m \in DOMAIN emitted :
           /\ k < m
           /\ emitted[k].kind = "loading"
           /\ emitted[m].kind = "error"

====
